---- MODULE Spec2Model ----
(***************************************************************************)
(* A model of @enclave-hq/chain-utils: the SLIP-44 chain registry           *)
(* (src/src/chain/slip44.ts), the EVM and Tron address converters           *)
(* (src/src/address/evm.ts, tron.ts) and the 36-byte Universal Address      *)
(* codec (src/src/address/universal-address.ts).                            *)
(*                                                                         *)
(* Representation                                                          *)
(*   - a JS string that the code indexes (addresses, hex) is a sequence of  *)
(*     one-character strings; a string that is only compared or used as a   *)
(*     map key (a native chain ID, a name) is a TLA+ string;                *)
(*   - a Uint8Array is a sequence of integers in 0..255;                    *)
(*   - a slip44 number is a pair <<high, low>> of base-65536 limbs, because *)
(*     the code's 32-bit shifts must be modelled beyond the range of the    *)
(*     checker's integers (N(n) writes a small number in this form);        *)
(*   - a native chain ID (number | string) is <<"number", n>> or            *)
(*     <<"string", s>>;                                                     *)
(*   - null is <<>> and a non-null result v of a nullable function is <<v>>;*)
(*   - a call's outcome is [ok |-> TRUE, val |-> v] or, for a thrown Error, *)
(*     [ok |-> FALSE, err |-> kind].                                        *)
(***************************************************************************)
EXTENDS Integers, Sequences, FiniteSets, TLC

VARIABLES
  SLIP44_CHAIN_MAP,      \* the forward object: own properties in JS property order
  NATIVE_TO_SLIP44_MAP,  \* the reverse Map: entries in insertion order
  nregs,                 \* the number of registerChain calls made so far
  last                   \* the caller: Idle between calls, else the call that has
                         \* just returned, [op, args, ret]

vars == <<SLIP44_CHAIN_MAP, NATIVE_TO_SLIP44_MAP, nregs, last>>

(***************************************************************************)
(* Values                                                                  *)
(***************************************************************************)
Null == <<>>
Some(v) == <<v>>

Ok(v) == [ok |-> TRUE, val |-> v]
Throw(kind) == [ok |-> FALSE, err |-> kind]

\* slip44 numbers: <<high, low>> limbs, value high * 65536 + low
N(n) == <<n \div 65536, n % 65536>>
NumLess(a, b) == a[1] < b[1] \/ (a[1] = b[1] /\ a[2] < b[2])
\* the value of a slip44 number that fits the checker's integers
ToInt(w) == w[1] * 65536 + w[2]

\* native chain IDs
NumId(n) == <<"number", n>>
StrId(s) == <<"string", s>>

EVM == "evm"
TRON == "tron"
SOLANA == "solana"
COSMOS == "cosmos"
ChainType == {EVM, TRON, SOLANA, COSMOS}

(***************************************************************************)
(* String(x) of a number | string: the decimal digits of an integer, the   *)
(* string itself otherwise.                                                *)
(***************************************************************************)
DigitChar(d) ==
  CASE d = 0 -> "0" [] d = 1 -> "1" [] d = 2 -> "2" [] d = 3 -> "3" [] d = 4 -> "4"
    [] d = 5 -> "5" [] d = 6 -> "6" [] d = 7 -> "7" [] d = 8 -> "8" [] d = 9 -> "9"

RECURSIVE NumberToString(_)
NumberToString(n) ==
  IF n < 0 THEN "-" \o NumberToString(-n)
  ELSE IF n < 10 THEN DigitChar(n)
  ELSE NumberToString(n \div 10) \o DigitChar(n % 10)

String(id) == IF id[1] = "number" THEN NumberToString(id[2]) ELSE id[2]

(***************************************************************************)
(* A JS object keyed by numbers, as the sequence of its own properties in  *)
(* property order: integer keys below 2^32 - 1 in ascending order first,   *)
(* then the other keys in the order they were created.                     *)
(***************************************************************************)
IsArrayIndex(k) == k[1] < 65536 /\ ~(k[1] = 65535 /\ k[2] = 65535)

ObjHas(obj, k) == \E i \in 1..Len(obj) : obj[i].key = k
ObjIndex(obj, k) == CHOOSE i \in 1..Len(obj) : obj[i].key = k
ObjGet(obj, k) == IF ObjHas(obj, k) THEN Some(obj[ObjIndex(obj, k)].value) ELSE Null

InsertAt(s, i, e) == SubSeq(s, 1, i - 1) \o <<e>> \o SubSeq(s, i, Len(s))

\* a variant that keeps the properties in the order they were created
ObjSlotAtEnd(obj, k) == Len(obj) + 1

\* where a new key goes
ObjSlot(obj, k) ==
  IF IsArrayIndex(k)
  THEN LET later == {i \in 1..Len(obj) :
                       ~IsArrayIndex(obj[i].key) \/ NumLess(k, obj[i].key)}
       IN IF later = {} THEN Len(obj) + 1
          ELSE CHOOSE i \in later : \A j \in later : i <= j
  ELSE Len(obj) + 1

ObjSet(obj, k, v) ==
  IF ObjHas(obj, k)
  THEN [obj EXCEPT ![ObjIndex(obj, k)] = [key |-> k, value |-> v]]
  ELSE InsertAt(obj, ObjSlot(obj, k), [key |-> k, value |-> v])

ObjKeys(obj) == [i \in 1..Len(obj) |-> obj[i].key]
ObjValues(obj) == [i \in 1..Len(obj) |-> obj[i].value]

(***************************************************************************)
(* A JS Map keyed by strings, as the sequence of its entries in insertion  *)
(* order; set() on an existing key keeps the entry's place.                *)
(***************************************************************************)
MapHas(m, k) == \E i \in 1..Len(m) : m[i].key = k
MapGet(m, k) ==
  IF MapHas(m, k) THEN Some(m[CHOOSE i \in 1..Len(m) : m[i].key = k].value) ELSE Null
MapSet(m, k, v) ==
  IF MapHas(m, k)
  THEN [m EXCEPT ![CHOOSE i \in 1..Len(m) : m[i].key = k] = [key |-> k, value |-> v]]
  ELSE Append(m, [key |-> k, value |-> v])

(***************************************************************************)
(* The seed table, in the order of the object literal.                     *)
(***************************************************************************)
ChainInfo(native, slip44, name, type, symbol) ==
  [nativeChainId |-> native, slip44 |-> slip44, name |-> name,
   chainType |-> type, symbol |-> symbol]

\* variants of the seed table: one whose Base record carries a mistyped
\* slip44 field, and one that registers Polygon in the custom range, as the
\* table of SLIP44_STRATEGY.en.md has it
SeedTableMistyped ==
  << [key |-> N(60),      value |-> ChainInfo(NumId(1), N(60), "Ethereum Mainnet", EVM, "ETH")],
     [key |-> N(195),     value |-> ChainInfo(NumId(195), N(195), "Tron Mainnet", TRON, "TRX")],
     [key |-> N(714),     value |-> ChainInfo(NumId(56), N(714), "BNB Smart Chain", EVM, "BNB")],
     [key |-> N(966),     value |-> ChainInfo(NumId(137), N(966), "Polygon Mainnet", EVM, "MATIC")],
     [key |-> N(501),     value |-> ChainInfo(StrId("mainnet-beta"), N(501), "Solana Mainnet", SOLANA, "SOL")],
     [key |-> N(9000),    value |-> ChainInfo(NumId(43114), N(9000), "Avalanche C-Chain", EVM, "AVAX")],
     [key |-> N(1042161), value |-> ChainInfo(NumId(42161), N(1042161), "Arbitrum One", EVM, "ETH")],
     [key |-> N(1000010), value |-> ChainInfo(NumId(10), N(1000010), "Optimism", EVM, "ETH")],
     [key |-> N(1008453), value |-> ChainInfo(NumId(8453), N(1008543), "Base", EVM, "ETH")],
     [key |-> N(1000324), value |-> ChainInfo(NumId(324), N(1000324), "zkSync Era", EVM, "ETH")] >>

SeedTableOfStrategyDoc ==
  << [key |-> N(60),      value |-> ChainInfo(NumId(1), N(60), "Ethereum Mainnet", EVM, "ETH")],
     [key |-> N(195),     value |-> ChainInfo(NumId(195), N(195), "Tron Mainnet", TRON, "TRX")],
     [key |-> N(714),     value |-> ChainInfo(NumId(56), N(714), "BNB Smart Chain", EVM, "BNB")],
     [key |-> N(1000137), value |-> ChainInfo(NumId(137), N(1000137), "Polygon Mainnet", EVM, "MATIC")],
     [key |-> N(501),     value |-> ChainInfo(StrId("mainnet-beta"), N(501), "Solana Mainnet", SOLANA, "SOL")],
     [key |-> N(9000),    value |-> ChainInfo(NumId(43114), N(9000), "Avalanche C-Chain", EVM, "AVAX")],
     [key |-> N(1042161), value |-> ChainInfo(NumId(42161), N(1042161), "Arbitrum One", EVM, "ETH")],
     [key |-> N(1000010), value |-> ChainInfo(NumId(10), N(1000010), "Optimism", EVM, "ETH")],
     [key |-> N(1008453), value |-> ChainInfo(NumId(8453), N(1008453), "Base", EVM, "ETH")],
     [key |-> N(1000324), value |-> ChainInfo(NumId(324), N(1000324), "zkSync Era", EVM, "ETH")] >>

SeedTable ==
  << [key |-> N(60),      value |-> ChainInfo(NumId(1), N(60), "Ethereum Mainnet", EVM, "ETH")],
     [key |-> N(195),     value |-> ChainInfo(NumId(195), N(195), "Tron Mainnet", TRON, "TRX")],
     [key |-> N(714),     value |-> ChainInfo(NumId(56), N(714), "BNB Smart Chain", EVM, "BNB")],
     [key |-> N(966),     value |-> ChainInfo(NumId(137), N(966), "Polygon Mainnet", EVM, "MATIC")],
     [key |-> N(501),     value |-> ChainInfo(StrId("mainnet-beta"), N(501), "Solana Mainnet", SOLANA, "SOL")],
     [key |-> N(9000),    value |-> ChainInfo(NumId(43114), N(9000), "Avalanche C-Chain", EVM, "AVAX")],
     [key |-> N(1042161), value |-> ChainInfo(NumId(42161), N(1042161), "Arbitrum One", EVM, "ETH")],
     [key |-> N(1000010), value |-> ChainInfo(NumId(10), N(1000010), "Optimism", EVM, "ETH")],
     [key |-> N(1008453), value |-> ChainInfo(NumId(8453), N(1008453), "Base", EVM, "ETH")],
     [key |-> N(1000324), value |-> ChainInfo(NumId(324), N(1000324), "zkSync Era", EVM, "ETH")] >>

RECURSIVE ObjFromEntries(_)
ObjFromEntries(entries) ==
  IF entries = <<>> THEN <<>>
  ELSE LET e == entries[Len(entries)]
       IN ObjSet(ObjFromEntries(SubSeq(entries, 1, Len(entries) - 1)), e.key, e.value)

SeedChainMap == ObjFromEntries(SeedTable)

\* new Map(Object.entries(SLIP44_CHAIN_MAP).map(([slip44, info]) =>
\*   [String(info.nativeChainId), Number(slip44)]))
RECURSIVE MapFromEntries(_)
MapFromEntries(entries) ==
  IF entries = <<>> THEN <<>>
  ELSE LET e == entries[Len(entries)]
       IN MapSet(MapFromEntries(SubSeq(entries, 1, Len(entries) - 1)), e.key, e.value)

SeedNativeMap ==
  MapFromEntries([i \in 1..Len(SeedChainMap) |->
    [key |-> String(SeedChainMap[i].value.nativeChainId), value |-> SeedChainMap[i].key]])

(***************************************************************************)
(* Registry lookups, as functions of the two maps.                         *)
(***************************************************************************)
NativeToSlip44(rev, nativeChainId) == MapGet(rev, String(nativeChainId))

\* a variant that answers from the table the module was loaded with
Slip44ToNativeOfSeed(fwd, slip44) ==
  LET info == ObjGet(SeedChainMap, slip44)
  IN IF info # Null THEN Some(info[1].nativeChainId) ELSE Null

Slip44ToNative(fwd, slip44) ==
  LET info == ObjGet(fwd, slip44)
  IN IF info # Null THEN Some(info[1].nativeChainId) ELSE Null

GetChainInfoBySlip44(fwd, slip44) == ObjGet(fwd, slip44)

\* `slip44 ? ... : null`: the number 0 is falsy, like null
Truthy(optNum) == optNum # Null /\ optNum[1] # N(0)

GetChainInfoByNative(fwd, rev, nativeChainId) ==
  LET slip44 == NativeToSlip44(rev, nativeChainId)
  IN IF Truthy(slip44) THEN GetChainInfoBySlip44(fwd, slip44[1]) ELSE Null

GetChainType(fwd, slip44) ==
  LET info == ObjGet(fwd, slip44)
  IN IF info # Null THEN Some(info[1].chainType) ELSE Null

IsSupportedChain(rev, nativeChainId) == MapHas(rev, String(nativeChainId))

IsSupportedSlip44(fwd, slip44) == ObjHas(fwd, slip44)

GetAllSupportedChains(fwd) == ObjValues(fwd)

GetAllSupportedSlip44s(fwd) == ObjKeys(fwd)

\* the lookups in the current state
nativeToSlip44(n) == NativeToSlip44(NATIVE_TO_SLIP44_MAP, n)
slip44ToNative(s) == Slip44ToNative(SLIP44_CHAIN_MAP, s)
getChainInfoBySlip44(s) == GetChainInfoBySlip44(SLIP44_CHAIN_MAP, s)
getChainInfoByNative(n) == GetChainInfoByNative(SLIP44_CHAIN_MAP, NATIVE_TO_SLIP44_MAP, n)
getChainType(s) == GetChainType(SLIP44_CHAIN_MAP, s)
isSupportedChain(n) == IsSupportedChain(NATIVE_TO_SLIP44_MAP, n)
isSupportedSlip44(s) == IsSupportedSlip44(SLIP44_CHAIN_MAP, s)

(***************************************************************************)
(* registerChain                                                           *)
(***************************************************************************)
\* a variant that keys the forward map by the 32 bits the wire format keeps
RegisterForwardOf32Bits(fwd, chainInfo) ==
  ObjSet(fwd, <<chainInfo.slip44[1] % 65536, chainInfo.slip44[2]>>, chainInfo)

RegisterForward(fwd, chainInfo) == ObjSet(fwd, chainInfo.slip44, chainInfo)
\* variants of the reverse-map write: one that leaves an existing key alone,
\* one that first drops the entries of the same slip44
RegisterReverseIfAbsent(rev, chainInfo) ==
  IF MapHas(rev, String(chainInfo.nativeChainId)) THEN rev
  ELSE MapSet(rev, String(chainInfo.nativeChainId), chainInfo.slip44)
RegisterReverseReplacing(rev, chainInfo) ==
  LET Other(e) == e.value # chainInfo.slip44
  IN MapSet(SelectSeq(rev, Other), String(chainInfo.nativeChainId), chainInfo.slip44)

\* a variant that keys the map by the ID as given: a number is then a key
\* of its own, distinct from every string
RegisterReverseUnnormalized(rev, chainInfo) ==
  LET id == chainInfo.nativeChainId
      key == IF id[1] = "number" THEN "number:" \o String(id) ELSE String(id)
  IN MapSet(rev, key, chainInfo.slip44)

RegisterReverse(rev, chainInfo) ==
  MapSet(rev, String(chainInfo.nativeChainId), chainInfo.slip44)

(***************************************************************************)
(* Characters, bytes and hexadecimal text.                                 *)
(***************************************************************************)
HexDigits == <<"0", "1", "2", "3", "4", "5", "6", "7", "8", "9", "a", "b", "c", "d", "e", "f">>
UpperCase == <<"A", "B", "C", "D", "E", "F", "G", "H", "I", "J", "K", "L", "M",
               "N", "O", "P", "Q", "R", "S", "T", "U", "V", "W", "X", "Y", "Z">>
LowerCase == <<"a", "b", "c", "d", "e", "f", "g", "h", "i", "j", "k", "l", "m",
               "n", "o", "p", "q", "r", "s", "t", "u", "v", "w", "x", "y", "z">>

\* String.prototype.toLowerCase, one character
LowerChar(c) ==
  IF \E i \in 1..26 : UpperCase[i] = c
  THEN LowerCase[CHOOSE i \in 1..26 : UpperCase[i] = c]
  ELSE c
ToLowerCase(str) == [i \in 1..Len(str) |-> LowerChar(str[i])]

\* str.replace(/^0x/, '')
StripPrefix(str) ==
  IF Len(str) >= 2 /\ str[1] = "0" /\ str[2] = "x" THEN SubSeq(str, 3, Len(str)) ELSE str

\* the value of a hexadecimal digit of either case, -1 for any other character
HexVal(c) ==
  LET l == LowerChar(c)
  IN IF \E i \in 1..16 : HexDigits[i] = l
     THEN (CHOOSE i \in 1..16 : HexDigits[i] = l) - 1
     ELSE -1
IsHexChar(c) == HexVal(c) >= 0
IsWhiteSpace(c) == c \in {" ", "\t", "\n"}

\* parseInt(c1 + c2, 16) of a two-character string: leading white space is
\* skipped, a sign and a 0x prefix are accepted, then the longest run of
\* hexadecimal digits is read; NaN (Null) when there is no digit.
ParseInt16(c1, c2) ==
  CASE IsHexChar(c1) /\ IsHexChar(c2) -> Some(16 * HexVal(c1) + HexVal(c2))
    [] IsHexChar(c1) /\ ~IsHexChar(c2) ->
         IF c1 = "0" /\ c2 \in {"x", "X"} THEN Null ELSE Some(HexVal(c1))
    [] IsWhiteSpace(c1) /\ IsHexChar(c2) -> Some(HexVal(c2))
    [] c1 = "+" /\ IsHexChar(c2) -> Some(HexVal(c2))
    [] c1 = "-" /\ IsHexChar(c2) -> Some(-HexVal(c2))
    [] OTHER -> Null

\* storing a number into a Uint8Array element: NaN becomes 0, others wrap
ToUint8(num) == IF num = Null THEN 0 ELSE num[1] % 256

\* the loop `bytes[i] = parseInt(cleaned.substring(i * 2, i * 2 + 2), 16)`
ParseHexPairs(cleaned, n) ==
  [i \in 1..n |-> ToUint8(ParseInt16(cleaned[2 * i - 1], cleaned[2 * i]))]

\* b.toString(16).padStart(2, '0')
ByteToHex(b) == <<HexDigits[(b \div 16) + 1], HexDigits[(b % 16) + 1]>>

\* Array.from(bytes).map(...).join('')
BytesToHexString(bytes) ==
  [i \in 1..(2 * Len(bytes)) |-> ByteToHex(bytes[(i + 1) \div 2])[2 - (i % 2)]]

Zeros(n) == [i \in 1..n |-> 0]

(***************************************************************************)
(* EVMAddressConverter                                                     *)
(***************************************************************************)
EvmToBytes(nativeAddress) ==
  LET cleaned == StripPrefix(ToLowerCase(nativeAddress))
  IN IF Len(cleaned) # 40
     THEN Throw("Invalid EVM address length")
     ELSE Ok(Zeros(12) \o ParseHexPairs(cleaned, 20))

\* a variant that reads the first 20 bytes of the slot, not the last
EvmFromBytesHead(bytes) ==
  IF Len(bytes) # 32
  THEN Throw("Invalid bytes length for EVM address")
  ELSE Ok(<<"0", "x">> \o BytesToHexString(SubSeq(bytes, 1, 20)))

EvmFromBytes(bytes) ==
  IF Len(bytes) # 32
  THEN Throw("Invalid bytes length for EVM address")
  ELSE Ok(<<"0", "x">> \o BytesToHexString(SubSeq(bytes, 13, 32)))

\* /^0x[0-9a-fA-F]{40}$/
EvmIsValid(nativeAddress) ==
  /\ Len(nativeAddress) = 42
  /\ nativeAddress[1] = "0"
  /\ nativeAddress[2] = "x"
  /\ \A i \in 3..42 : IsHexChar(nativeAddress[i])

EvmFormat(nativeAddress) ==
  IF ~EvmIsValid(nativeAddress)
  THEN Throw("Invalid EVM address")
  ELSE Ok(ToLowerCase(nativeAddress))

(***************************************************************************)
(* TronAddressConverter                                                    *)
(*                                                                         *)
(* The loops are recursive operators.  A step of the form                  *)
(* IF x = x THEN <next step with x> ELSE ... only makes the checker        *)
(* compute x before it goes on; the ELSE branch is never taken.            *)
(***************************************************************************)
BASE58_ALPHABET ==
  <<"1", "2", "3", "4", "5", "6", "7", "8", "9",
    "A", "B", "C", "D", "E", "F", "G", "H", "J", "K", "L", "M", "N", "P", "Q",
    "R", "S", "T", "U", "V", "W", "X", "Y", "Z",
    "a", "b", "c", "d", "e", "f", "g", "h", "i", "j", "k", "m", "n", "o", "p",
    "q", "r", "s", "t", "u", "v", "w", "x", "y", "z">>

\* BASE58_ALPHABET.indexOf(char)
Base58IndexOf(c) ==
  IF \E i \in 1..58 : BASE58_ALPHABET[i] = c
  THEN (CHOOSE i \in 1..58 : BASE58_ALPHABET[i] = c) - 1
  ELSE -1

Reverse(s) == [i \in 1..Len(s) |-> s[Len(s) + 1 - i]]

\* the number of leading elements of s equal to x
RECURSIVE LeadingCount(_, _)
LeadingCount(s, x) ==
  IF s = <<>> \/ s[1] # x THEN 0 ELSE 1 + LeadingCount(Tail(s), x)

\* for (i...) { value += bytes[i] * 58; bytes[i] = value & 0xff; value >>= 8 }
RECURSIVE DecodeCarry(_, _, _)
DecodeCarry(bytes, i, value) ==
  IF i > Len(bytes) THEN <<bytes, value>>
  ELSE LET v == value + bytes[i] * 58
           stored == [bytes EXCEPT ![i] = v % 256]
       IN IF stored = stored THEN DecodeCarry(stored, i + 1, v \div 256) ELSE <<>>

\* while (value > 0) { bytes.push(value & 0xff); value >>= 8 }
RECURSIVE DecodePush(_, _)
DecodePush(bytes, value) ==
  IF value > 0 THEN DecodePush(Append(bytes, value % 256), value \div 256) ELSE bytes

\* the loop over the characters from position k on; Null when a character
\* is outside the alphabet
RECURSIVE DecodeChars(_, _, _)
DecodeChars(input, k, bytes) ==
  IF k > Len(input) THEN Some(bytes)
  ELSE IF Base58IndexOf(input[k]) < 0 THEN Null
  ELSE LET r == DecodeCarry(bytes, 1, Base58IndexOf(input[k]))
           pushed == DecodePush(r[1], r[2])
       IN IF pushed = pushed THEN DecodeChars(input, k + 1, pushed) ELSE Null

\* a variant without the loop that adds the leading zeros
Base58DecodeUnpadded(input) ==
  LET bytes == DecodeChars(input, 1, <<>>)
  IN IF bytes = Null
     THEN Throw("Invalid Base58 character")
     ELSE Ok(Reverse(bytes[1]))

Base58Decode(input) ==
  LET bytes == DecodeChars(input, 1, <<>>)
  IN IF bytes = Null
     THEN Throw("Invalid Base58 character")
     ELSE Ok(Reverse(bytes[1] \o Zeros(LeadingCount(input, "1"))))

\* for (i...) { carry += digits[i] << 8; digits[i] = carry % 58; carry = floor(carry / 58) }
RECURSIVE EncodeCarry(_, _, _)
EncodeCarry(digits, i, carry) ==
  IF i > Len(digits) THEN <<digits, carry>>
  ELSE LET c == carry + digits[i] * 256
           stored == [digits EXCEPT ![i] = c % 58]
       IN IF stored = stored THEN EncodeCarry(stored, i + 1, c \div 58) ELSE <<>>

\* while (carry > 0) { digits.push(carry % 58); carry = floor(carry / 58) }
RECURSIVE EncodePush(_, _)
EncodePush(digits, carry) ==
  IF carry > 0 THEN EncodePush(Append(digits, carry % 58), carry \div 58) ELSE digits

RECURSIVE EncodeBytes(_, _, _)
EncodeBytes(bytes, k, digits) ==
  IF k > Len(bytes) THEN digits
  ELSE LET r == EncodeCarry(digits, 1, bytes[k])
           pushed == EncodePush(r[1], r[2])
       IN IF pushed = pushed THEN EncodeBytes(bytes, k + 1, pushed) ELSE <<>>

Base58Encode(bytes) ==
  LET digits == Reverse(EncodeBytes(bytes, 1, <<>>) \o Zeros(LeadingCount(bytes, 0)))
  IN [i \in 1..Len(digits) |-> BASE58_ALPHABET[digits[i] + 1]]

\* 32-bit integers as <<high, low>> 16-bit limbs
U32Shl(h, bits) ==
  <<(h[1] * (2 ^ bits) + (h[2] * (2 ^ bits)) \div 65536) % 65536, (h[2] * (2 ^ bits)) % 65536>>
U32Sub(a, b) ==
  LET lo == a[2] - b[2]
  IN <<(a[1] - b[1] - (IF lo < 0 THEN 1 ELSE 0)) % 65536, lo % 65536>>
U32AddByte(a, byte) ==
  LET lo == a[2] + byte
  IN <<(a[1] + lo \div 65536) % 65536, lo % 65536>>

\* hash = ((hash << 5) - hash + byte) | 0, over the payload from position k on
RECURSIVE HashBytes(_, _, _)
HashBytes(payload, k, hash) ==
  IF k > Len(payload) THEN hash
  ELSE LET h == U32AddByte(U32Sub(U32Shl(hash, 5), hash), payload[k])
       IN IF h = h THEN HashBytes(payload, k + 1, h) ELSE hash

\* the four bytes (hash >>> 24) & 0xff, ..., hash & 0xff
U32Bytes(h) == <<h[1] \div 256, h[1] % 256, h[2] \div 256, h[2] % 256>>

CalculateChecksum(payload) == U32Bytes(HashBytes(payload, 1, <<0, 0>>))

ArraysEqual(a, b) == Len(a) = Len(b) /\ \A i \in 1..Len(a) : a[i] = b[i]

\* /^T[1-9A-HJ-NP-Za-km-z]{33}$/
TronSyntax(nativeAddress) ==
  /\ Len(nativeAddress) = 34
  /\ nativeAddress[1] = "T"
  /\ \A i \in 2..34 : Base58IndexOf(nativeAddress[i]) >= 0

\* a variant that checks the syntax only
TronIsValidSyntaxOnly(nativeAddress) == TronSyntax(nativeAddress)

TronIsValid(nativeAddress) ==
  IF ~TronSyntax(nativeAddress) THEN FALSE
  ELSE LET decoded == Base58Decode(nativeAddress)
       IN IF ~decoded.ok THEN FALSE
          ELSE IF Len(decoded.val) # 25 THEN FALSE
          ELSE ArraysEqual(SubSeq(decoded.val, 22, 25),
                           CalculateChecksum(SubSeq(decoded.val, 1, 21)))

TronToBytes(nativeAddress) ==
  IF ~TronIsValid(nativeAddress)
  THEN Throw("Invalid Tron address")
  ELSE LET decoded == Base58Decode(nativeAddress)
       IN IF ~decoded.ok THEN decoded
          ELSE IF Len(decoded.val) # 25
          THEN Throw("Invalid Tron address length after decoding")
          ELSE Ok(Zeros(12) \o SubSeq(decoded.val, 2, 21))

TronMainnetPrefix == 65

\* a variant that takes the first 20 bytes of the slot
TronFromBytesHead(bytes) ==
  IF Len(bytes) # 32
  THEN Throw("Invalid bytes length for Tron address")
  ELSE LET prefixed == <<TronMainnetPrefix>> \o SubSeq(bytes, 1, 20)
       IN Ok(Base58Encode(prefixed \o CalculateChecksum(prefixed)))

TronFromBytes(bytes) ==
  IF Len(bytes) # 32
  THEN Throw("Invalid bytes length for Tron address")
  ELSE LET prefixed == <<TronMainnetPrefix>> \o SubSeq(bytes, 13, 32)
       IN Ok(Base58Encode(prefixed \o CalculateChecksum(prefixed)))

(***************************************************************************)
(* The Universal Address codec                                             *)
(***************************************************************************)
\* the four bytes (slip44 >>> 24) & 0xff, (slip44 >>> 16) & 0xff,
\* (slip44 >>> 8) & 0xff, slip44 & 0xff: the shifts take the number modulo 2^32
Slip44Bytes(slip44) == U32Bytes(<<slip44[1] % 65536, slip44[2]>>)

\* a variant that reads the four bytes in little-endian order
Slip44FromBytesLittleEndian(b) == <<b[4] * 256 + b[3], b[2] * 256 + b[1]>>

\* ((b0 << 24) | (b1 << 16) | (b2 << 8) | b3) >>> 0
Slip44FromBytes(b) == <<b[1] * 256 + b[2], b[3] * 256 + b[4]>>

\* a variant whose default branch falls back to the EVM converter
ConverterToBytesEvmDefault(chainType, nativeAddress) ==
  CASE chainType = EVM -> EvmToBytes(nativeAddress)
    [] chainType = TRON -> TronToBytes(nativeAddress)
    [] chainType = SOLANA -> Throw("Solana address conversion not implemented yet")
    [] OTHER -> EvmToBytes(nativeAddress)

\* the switch on the chain type, on the way in and on the way out
ConverterToBytes(chainType, nativeAddress) ==
  CASE chainType = EVM -> EvmToBytes(nativeAddress)
    [] chainType = TRON -> TronToBytes(nativeAddress)
    [] chainType = SOLANA -> Throw("Solana address conversion not implemented yet")
    [] OTHER -> Throw("Unsupported chain type")

ConverterFromBytes(chainType, addressBytes) ==
  CASE chainType = EVM -> EvmFromBytes(addressBytes)
    [] chainType = TRON -> TronFromBytes(addressBytes)
    [] chainType = SOLANA -> Throw("Solana address conversion not implemented yet")
    [] OTHER -> Throw("Unsupported chain type")

EncodeUniversalAddress(fwd, slip44, nativeAddress) ==
  LET chainType == GetChainType(fwd, slip44)
  IN IF chainType = Null
     THEN Throw("Unsupported SLIP-44 ID")
     ELSE LET addressBytes == ConverterToBytes(chainType[1], nativeAddress)
          IN IF ~addressBytes.ok THEN addressBytes
             ELSE Ok(Slip44Bytes(slip44) \o addressBytes.val)

\* a variant whose length guard lets longer input through
DecodeUniversalAddressAtLeast(fwd, universalAddress) ==
  IF Len(universalAddress) < 36
  THEN Throw("Invalid Universal Address length")
  ELSE LET slip44 == Slip44FromBytes(universalAddress)
           chainType == GetChainType(fwd, slip44)
       IN IF chainType = Null
          THEN Throw("Unknown SLIP-44 ID")
          ELSE LET nativeAddress ==
                     ConverterFromBytes(chainType[1], SubSeq(universalAddress, 5, 36))
               IN IF ~nativeAddress.ok THEN nativeAddress
                  ELSE Ok([slip44 |-> slip44,
                           nativeAddress |-> nativeAddress.val,
                           nativeChainId |-> Slip44ToNative(fwd, slip44)])

DecodeUniversalAddress(fwd, universalAddress) ==
  IF Len(universalAddress) # 36
  THEN Throw("Invalid Universal Address length")
  ELSE LET slip44 == Slip44FromBytes(universalAddress)
           chainType == GetChainType(fwd, slip44)
       IN IF chainType = Null
          THEN Throw("Unknown SLIP-44 ID")
          ELSE LET nativeAddress ==
                     ConverterFromBytes(chainType[1], SubSeq(universalAddress, 5, 36))
               IN IF ~nativeAddress.ok THEN nativeAddress
                  ELSE Ok([slip44 |-> slip44,
                           nativeAddress |-> nativeAddress.val,
                           nativeChainId |-> Slip44ToNative(fwd, slip44)])

BytesToHex(bytes) ==
  IF Len(bytes) # 36
  THEN Throw("Invalid bytes length")
  ELSE Ok(<<"0", "x">> \o BytesToHexString(bytes))

\* a variant that does not strip the prefix
HexToBytesUnstripped(hex) ==
  IF Len(hex) # 72
  THEN Throw("Invalid hex length")
  ELSE Ok(ParseHexPairs(hex, 36))

HexToBytes(hex) ==
  LET cleaned == StripPrefix(hex)
  IN IF Len(cleaned) # 72
     THEN Throw("Invalid hex length")
     ELSE Ok(ParseHexPairs(cleaned, 36))

CreateUniversalAddress(fwd, rev, nativeChainId, nativeAddress) ==
  LET slip44 == NativeToSlip44(rev, nativeChainId)
  IN IF slip44 = Null
     THEN Throw("Unsupported native chain ID")
     ELSE EncodeUniversalAddress(fwd, slip44[1], nativeAddress)

CreateUniversalAddressHex(fwd, rev, nativeChainId, nativeAddress) ==
  LET bytes == CreateUniversalAddress(fwd, rev, nativeChainId, nativeAddress)
  IN IF ~bytes.ok THEN bytes ELSE BytesToHex(bytes.val)

\* address is <<"string", hex>> or <<"bytes", bytes>> (typeof address === 'string')
IsValidUniversalAddress(fwd, address) ==
  LET bytes == IF address[1] = "string" THEN HexToBytes(address[2]) ELSE Ok(address[2])
  IN IF ~bytes.ok THEN FALSE ELSE DecodeUniversalAddress(fwd, bytes.val).ok

\* the codec in the current state
encodeUniversalAddress(s, a) == EncodeUniversalAddress(SLIP44_CHAIN_MAP, s, a)
decodeUniversalAddress(b) == DecodeUniversalAddress(SLIP44_CHAIN_MAP, b)
createUniversalAddress(n, a) ==
  CreateUniversalAddress(SLIP44_CHAIN_MAP, NATIVE_TO_SLIP44_MAP, n, a)
createUniversalAddressHex(n, a) ==
  CreateUniversalAddressHex(SLIP44_CHAIN_MAP, NATIVE_TO_SLIP44_MAP, n, a)
isValidUniversalAddress(x) == IsValidUniversalAddress(SLIP44_CHAIN_MAP, x)

(***************************************************************************)
(* Bounds and the inputs the actions draw from.                            *)
(***************************************************************************)
MaxRegs == 2

\* slip44 numbers with bit 31 set (2^31 + 60) and beyond 32 bits (2^32 + 60)
Slip44Bit31 == <<32768, 60>>
Slip44Wide == <<65536, 60>>

Fantom == ChainInfo(NumId(250), N(60), "Fantom Opera", EVM, "FTM")

RegInputs ==
  { Fantom,
    ChainInfo(StrId("1"), N(1000001), "Ethereum Mainnet", EVM, "ETH"),
    ChainInfo(NumId(728126428), N(0), "Tron Nile", TRON, "TRX"),
    ChainInfo(StrId("cosmoshub-4"), N(118), "Cosmos Hub", COSMOS, "ATOM"),
    ChainInfo(NumId(31), Slip44Bit31, "High Bit", EVM, "HB"),
    ChainInfo(NumId(32), Slip44Wide, "Wide", TRON, "WD") }

SeedNativeIds == {SeedTable[i].value.nativeChainId : i \in 1..Len(SeedTable)}
SeedSlip44s == {SeedTable[i].key : i \in 1..Len(SeedTable)}

\* every native chain ID and slip44 number of the seed table and of the
\* registrations, and some that are never registered
AllNativeIds ==
  SeedNativeIds \cup {c.nativeChainId : c \in RegInputs}
    \cup {StrId("1"), NumId(1), StrId("250"), NumId(2), StrId("")}
AllSlip44s == SeedSlip44s \cup {c.slip44 : c \in RegInputs} \cup {N(1), N(61)}

\* the native chain IDs and slip44 numbers the calls are made with
NativeIds ==
  {NumId(1), StrId("1"), NumId(250), NumId(195), StrId("mainnet-beta"),
   NumId(728126428), NumId(32), NumId(2)}
Slip44s ==
  {N(60), N(195), N(501), N(118), N(0), Slip44Bit31, Slip44Wide, N(61), N(1042161)}

\* EVM addresses: the README's, and malformed ones
EvmExample ==
  <<"0", "x", "7", "4", "2", "d", "3", "5", "C", "c", "6", "6", "3", "4", "C", "0", "5", "3", "2", "9", "2",
    "5", "a", "3", "b", "8", "4", "4", "B", "c", "9", "e", "7", "5", "9", "5", "f", "0", "b", "E", "b", "0">>
EvmLowerCase == ToLowerCase(EvmExample)
EvmUpperCase == <<"0", "x">> \o [i \in 1..40 |-> IF i % 2 = 0 THEN "F" ELSE "A"]
EvmNoPrefix == SubSeq(EvmExample, 3, 42)
EvmShort == SubSeq(EvmExample, 1, 41)
EvmLong == EvmExample \o <<"0">>
EvmNonHex == [EvmExample EXCEPT ![3] = "z", ![4] = "z"]
EvmBigPrefix == [EvmExample EXCEPT ![2] = "X"]

EvmAddresses ==
  {EvmExample, EvmLowerCase, EvmUpperCase, EvmNoPrefix, EvmShort, EvmLong,
   EvmNonHex, EvmBigPrefix}

\* Tron addresses: with the mainnet prefix byte 0x41, with the prefix byte
\* 0x42, with a wrong checksum, and the 33-character one of test-examples.ts
TronExample ==
  <<"T", "R", "7", "N", "H", "q", "j", "e", "K", "Q", "x", "G", "T", "C", "i", "8", "q", "8", "Z", "Y", "4",
    "p", "L", "8", "o", "t", "S", "z", "e", "7", "3", "q", "i", "n">>
TronOtherPrefix ==
  <<"T", "Z", "K", "F", "7", "7", "6", "D", "q", "J", "D", "9", "r", "D", "q", "x", "p", "G", "f", "R", "R",
    "a", "a", "J", "4", "5", "e", "9", "6", "W", "T", "p", "a", "R">>
TronBadChecksum == [TronExample EXCEPT ![34] = "1"]
TronTestExample ==
  <<"T", "R", "X", "9", "h", "a", "s", "h", "1", "2", "3", "4", "5", "6", "7", "8", "9", "0", "a", "b", "c",
    "d", "e", "f", "g", "h", "i", "j", "k", "l", "m", "n", "o">>

\* 34 characters, one of them outside the Base58 alphabet
TronBadChar == [TronExample EXCEPT ![20] = "0"]

TronAddresses ==
  {TronExample, TronOtherPrefix, TronBadChecksum, TronTestExample, TronBadChar}

\* byte sequences handed to base58Encode: every sequence of up to three bytes
\* out of 0, 1, 58 and 255, and two 25-byte payloads, one with leading zeros
Base58ByteValues == {0, 1, 58, 255}
Base58Bytes ==
  UNION {[1..n -> Base58ByteValues] : n \in 0..3}
    \cup {[i \in 1..25 |-> (i * 37) % 256], [i \in 1..25 |-> IF i < 3 THEN 0 ELSE (i * 37) % 256]}

\* text handed to base58Decode: encodings, and text with a character outside
\* the alphabet at the start, in the middle and at the end
Base58Texts ==
  {Base58Encode(b) : b \in Base58Bytes}
    \cup {TronExample, TronBadChar, <<"0">>, <<"1", "O">>, <<"I", "1", "2">>, <<"2", "l", "3">>,
          <<"1", "1", " ">>}

\* the addresses handed to the Universal Address codec
Addresses ==
  {EvmExample, EvmNonHex, EvmShort, TronExample, TronOtherPrefix, TronBadChecksum}

\* 20-byte payloads and the 32-byte slots holding them
Payloads ==
  { [i \in 1..20 |-> (i * 13) % 256],
    SubSeq(EvmToBytes(EvmExample).val, 13, 32) }
Paddings == {Zeros(12), [i \in 1..12 |-> IF i = 12 THEN 1 ELSE 255]}
Slots == {pad \o payload : pad \in Paddings, payload \in Payloads}

\* byte sequences handed to the decoder: every slip44 prefix with a slot, and
\* the same one byte short and one byte long
Prefixes == {Slip44Bytes(s) : s \in Slip44s} \cup {<<255, 255, 255, 255>>}
UniversalBytes ==
  LET full == {prefix \o slot : prefix \in Prefixes, slot \in Slots}
      off == {prefix \o Zeros(12) \o payload : prefix \in Prefixes, payload \in Payloads}
  IN full \cup {SubSeq(b, 1, 35) : b \in off} \cup {b \o <<0>> : b \in off}
          \cup {<<>>, <<0, 0, 0, 60>>}

\* hexadecimal text handed to hexToBytes: 72 characters of one filler with one
\* pair of characters replaced, with and without the prefix, and off-length
HexFillers == {"0", "a", "F", "9"}
HexOddChars == {"g", "z", "x", "X", " ", "-", "+", "0", "f", "B"}
HexBodies ==
  {[[i \in 1..72 |-> fill] EXCEPT ![pos] = c1, ![pos + 1] = c2] :
     fill \in HexFillers, pos \in {1, 71}, c1 \in HexOddChars, c2 \in {"0", "x", "E", "g"}}
HexStrings ==
  LET bodies == HexBodies
      some == {[i \in 1..72 |-> fill] : fill \in HexFillers}
  IN bodies \cup {<<"0", "x">> \o h : h \in bodies}
       \cup {SubSeq(h, 1, 71) : h \in some} \cup {h \o <<"0">> : h \in some}
       \cup {<<"0", "x">> \o SubSeq(h, 1, 70) : h \in some}
       \cup {<<"0", "X">> \o h : h \in some} \cup {<<>>, <<"0", "x">>}

\* hexadecimal text handed to isValidUniversalAddress
UniversalHex ==
  LET zeros == [i \in 1..64 |-> "0"]
      eth == <<"0", "0", "0", "0", "0", "0", "3", "c">>
      none == <<"0", "0", "0", "0", "0", "0", "3", "d">>
  IN { <<"0", "x">> \o eth \o zeros, eth \o zeros, ToLowerCase(eth) \o zeros,
       <<"0", "x">> \o none \o zeros,
       <<"0", "x">> \o [eth EXCEPT ![1] = "z"] \o zeros,
       <<"0", "x">> \o [eth EXCEPT ![7] = "g", ![8] = "g"] \o zeros,
       [eth EXCEPT ![7] = "3", ![8] = "C"] \o zeros,
       <<"0", "x">> \o eth \o SubSeq(zeros, 1, 63), eth \o zeros \o <<"0">>, <<>> }

(***************************************************************************)
(* The state machine: a single-threaded caller makes one call at a time.   *)
(* A call runs to completion (there are no suspension points) and leaves   *)
(* its outcome in `last`; the caller then goes back to Idle.               *)
(***************************************************************************)
Idle == [op |-> "idle", args |-> <<>>, ret |-> Ok(Null)]

Init ==
  /\ SLIP44_CHAIN_MAP = SeedChainMap
  /\ NATIVE_TO_SLIP44_MAP = SeedNativeMap
  /\ nregs = 0
  /\ last = Idle

registerChain(chainInfo) ==
  /\ last = Idle
  /\ nregs < MaxRegs
  /\ SLIP44_CHAIN_MAP' = RegisterForward(SLIP44_CHAIN_MAP, chainInfo)
  /\ NATIVE_TO_SLIP44_MAP' = RegisterReverse(NATIVE_TO_SLIP44_MAP, chainInfo)
  /\ nregs' = nregs + 1
  /\ last' = [op |-> "registerChain", args |-> <<chainInfo>>, ret |-> Ok(Null)]

RegisterChain == \E chainInfo \in RegInputs : registerChain(chainInfo)

\* a variant in which a call that fails rebuilds the reverse map from the
\* forward map, the way the module builds it when it is loaded
CallRebuilding(op, args, ret) ==
  /\ last = Idle
  /\ last' = [op |-> op, args |-> args, ret |-> ret]
  /\ NATIVE_TO_SLIP44_MAP' =
       IF ret.ok THEN NATIVE_TO_SLIP44_MAP
       ELSE MapFromEntries([i \in 1..Len(SLIP44_CHAIN_MAP) |->
              [key |-> String(SLIP44_CHAIN_MAP[i].value.nativeChainId),
               value |-> SLIP44_CHAIN_MAP[i].key]])
  /\ UNCHANGED <<SLIP44_CHAIN_MAP, nregs>>

\* a call that only reads the registry
Call(op, args, ret) ==
  /\ last = Idle
  /\ last' = [op |-> op, args |-> args, ret |-> ret]
  /\ UNCHANGED <<SLIP44_CHAIN_MAP, NATIVE_TO_SLIP44_MAP, nregs>>

Return ==
  /\ last # Idle
  /\ last' = Idle
  /\ UNCHANGED <<SLIP44_CHAIN_MAP, NATIVE_TO_SLIP44_MAP, nregs>>

LookupNative ==
  \E n \in NativeIds :
    \/ Call("nativeToSlip44", <<n>>, Ok(nativeToSlip44(n)))
    \/ Call("isSupportedChain", <<n>>, Ok(isSupportedChain(n)))
    \/ Call("getChainInfoByNative", <<n>>, Ok(getChainInfoByNative(n)))

LookupSlip44 ==
  \E s \in Slip44s :
    \/ Call("slip44ToNative", <<s>>, Ok(slip44ToNative(s)))
    \/ Call("getChainInfoBySlip44", <<s>>, Ok(getChainInfoBySlip44(s)))
    \/ Call("getChainType", <<s>>, Ok(getChainType(s)))
    \/ Call("isSupportedSlip44", <<s>>, Ok(isSupportedSlip44(s)))

ListAll ==
  \/ Call("getAllSupportedChains", <<>>, Ok(GetAllSupportedChains(SLIP44_CHAIN_MAP)))
  \/ Call("getAllSupportedSlip44s", <<>>, Ok(GetAllSupportedSlip44s(SLIP44_CHAIN_MAP)))

Encode ==
  \E s \in Slip44s, a \in Addresses :
    Call("encodeUniversalAddress", <<s, a>>, encodeUniversalAddress(s, a))

Decode ==
  \E b \in UniversalBytes :
    Call("decodeUniversalAddress", <<b>>, decodeUniversalAddress(b))

Create ==
  \E n \in NativeIds :
    \/ \E a \in Addresses :
         Call("createUniversalAddress", <<n, a>>, createUniversalAddress(n, a))
    \/ \E a \in {EvmExample, TronExample} :
         Call("createUniversalAddressHex", <<n, a>>, createUniversalAddressHex(n, a))

\* test-examples.ts: createUniversalAddress, then decodeUniversalAddress of
\* what it returned; the outcome is the decoder's, or the encoder's error
RoundTrip ==
  \E n \in NativeIds, a \in Addresses :
    LET ua == createUniversalAddress(n, a)
    IN Call("decode(create)", <<n, a>>,
            IF ua.ok THEN decodeUniversalAddress(ua.val) ELSE ua)

IsValid ==
  \/ \E b \in UniversalBytes :
       Call("isValidUniversalAddress", <<<<"bytes", b>>>>,
            Ok(isValidUniversalAddress(<<"bytes", b>>)))
  \/ \E h \in UniversalHex :
       Call("isValidUniversalAddress", <<<<"string", h>>>>,
            Ok(isValidUniversalAddress(<<"string", h>>)))

ToHex == \E b \in UniversalBytes : Call("bytesToHex", <<b>>, BytesToHex(b))

FromHex == \E h \in HexStrings : Call("hexToBytes", <<h>>, HexToBytes(h))

EvmConvert ==
  \/ \E a \in EvmAddresses : Call("evmConverter.toBytes", <<a>>, EvmToBytes(a))
  \/ \E a \in EvmAddresses : Call("evmConverter.isValid", <<a>>, Ok(EvmIsValid(a)))
  \/ \E a \in EvmAddresses : Call("evmConverter.format", <<a>>, EvmFormat(a))
  \/ \E b \in Slots \cup {<<>>, Zeros(20), Zeros(33)} :
       Call("evmConverter.fromBytes", <<b>>, EvmFromBytes(b))

TronConvert ==
  \/ \E a \in TronAddresses : Call("tronConverter.toBytes", <<a>>, TronToBytes(a))
  \/ \E a \in TronAddresses : Call("tronConverter.isValid", <<a>>, Ok(TronIsValid(a)))
  \/ \E b \in Slots \cup {<<>>, Zeros(33), Zeros(32), [i \in 1..32 |-> 255]} :
       Call("tronConverter.fromBytes", <<b>>, TronFromBytes(b))

\* the Base58 helpers of the Tron converter
Base58Convert ==
  \/ \E b \in Base58Bytes : Call("tronConverter.base58Encode", <<b>>, Ok(Base58Encode(b)))
  \/ \E t \in Base58Texts : Call("tronConverter.base58Decode", <<t>>, Base58Decode(t))

Next ==
  \/ RegisterChain
  \/ Return
  \/ LookupNative
  \/ LookupSlip44
  \/ ListAll
  \/ Encode
  \/ Decode
  \/ Create
  \/ RoundTrip
  \/ IsValid
  \/ ToHex
  \/ EvmConvert
  \/ TronConvert

Spec == Init /\ [][Next]_vars

\* the codec and the converters alone, over the seed registry
CodecNext ==
  \/ Return
  \/ ToHex
  \/ FromHex
  \/ EvmConvert
  \/ TronConvert
  \/ Base58Convert

CodecSpec == Init /\ [][CodecNext]_vars

(***************************************************************************)
(* Properties of the registry                                              *)
(***************************************************************************)
\* C1: in every state reachable by registerChain calls, for every registered
\* slip44 key s, nativeToSlip44(getChainInfoBySlip44(s).nativeChainId) is s:
\* the reverse map resolves each forward record's native chain ID back to the
\* record's own key.
C1_ReverseResolvesForward ==
  \A s \in AllSlip44s :
    isSupportedSlip44(s) =>
      nativeToSlip44(getChainInfoBySlip44(s)[1].nativeChainId) = Some(s)

\* C2: in every reachable state, for every supported native chain ID n,
\* slip44ToNative(nativeToSlip44(n)) is n (compared as strings), and for
\* every registered slip44 s, nativeToSlip44(slip44ToNative(s)) is s.
C2_ChainIdRoundTrip ==
  /\ \A n \in AllNativeIds :
       isSupportedChain(n) =>
         LET back == slip44ToNative(nativeToSlip44(n)[1])
         IN back # Null /\ String(back[1]) = String(n)
  /\ \A s \in AllSlip44s :
       isSupportedSlip44(s) => nativeToSlip44(slip44ToNative(s)[1]) = Some(s)

\* whether address a is valid for a chain type, and its canonical form
ValidFor(chainType, a) == IF chainType = EVM THEN EvmIsValid(a) ELSE TronIsValid(a)
Canonical(chainType, a) == IF chainType = EVM THEN ToLowerCase(a) ELSE a

\* C3: in every reachable state, for every supported native chain ID n whose
\* chain type is EVM or TRON and every address a valid for that type,
\* decodeUniversalAddress(createUniversalAddress(n, a)) succeeds with
\* nativeAddress the canonical form of a and nativeChainId equal to n.
C3_UniversalAddressRoundTrip ==
  last.op = "decode(create)" =>
    LET n == last.args[1]
        a == last.args[2]
        chainType == IF nativeToSlip44(n) = Null THEN Null
                     ELSE getChainType(nativeToSlip44(n)[1])
    IN (/\ isSupportedChain(n)
        /\ chainType \in {Some(EVM), Some(TRON)}
        /\ ValidFor(chainType[1], a))
       => /\ last.ret.ok
          /\ last.ret.val.nativeAddress = Canonical(chainType[1], a)
          /\ last.ret.val.nativeChainId # Null
          /\ String(last.ret.val.nativeChainId[1]) = String(n)

\* C4: immediately after registerChain(info), from any prior state,
\* nativeToSlip44(info.nativeChainId) is info.slip44,
\* slip44ToNative(info.slip44) is info.nativeChainId and
\* getChainInfoBySlip44(info.slip44) is info; registering native 250 under
\* slip44 60 makes nativeToSlip44(250) return 60 and slip44ToNative(60) 250.
C4_RegisterLastWriteWins ==
  last.op = "registerChain" =>
    LET info == last.args[1]
    IN /\ nativeToSlip44(info.nativeChainId) = Some(info.slip44)
       /\ slip44ToNative(info.slip44) = Some(info.nativeChainId)
       /\ getChainInfoBySlip44(info.slip44) = Some(info)
       /\ info = Fantom =>
            /\ nativeToSlip44(NumId(250)) = Some(N(60))
            /\ slip44ToNative(N(60)) = Some(NumId(250))

\* the Fantom registration of the README has just been made on the seed
\* registry, over the Ethereum record
C4_Witness ==
  /\ last.op = "registerChain"
  /\ last.args[1] = Fantom
  /\ nregs = 1
  /\ slip44ToNative(N(60)) = Some(NumId(250))

\* a step that registers native ID n2 under a slip44 s whose record holds
\* another native ID n1 (the one registered under s last), n1 resolving to s
SecondNativeUnder(s, n1, n2) ==
  /\ nregs' = nregs + 1
  /\ last'.args[1].slip44 = s
  /\ last'.args[1].nativeChainId = n2
  /\ slip44ToNative(s) = Some(n1)
  /\ String(n1) # String(n2)
  /\ nativeToSlip44(n1) = Some(s)

\* C5 as stated: when n1 and then n2 are registered under the same slip44
\* s, the reverse map keeps only the latest association for s: afterwards n2
\* resolves to s and n1 no longer resolves to s.
C5_ReverseKeepsOnlyLatest ==
  [][nregs' # nregs =>
       LET s == last'.args[1].slip44
           n2 == last'.args[1].nativeChainId
           n1 == slip44ToNative(s)
       IN (n1 # Null /\ SecondNativeUnder(s, n1[1], n2)) =>
            /\ NativeToSlip44(NATIVE_TO_SLIP44_MAP', n2) = Some(s)
            /\ NativeToSlip44(NATIVE_TO_SLIP44_MAP', n1[1]) # Some(s)]_vars

\* C5 as amended: it is the forward map that keeps only the latest native ID
\* for s (slip44ToNative(s) becomes n2); in the reverse map n2 resolves to s
\* and n1 still resolves to s as well.
C5_ForwardKeepsOnlyLatest ==
  [][nregs' # nregs =>
       LET s == last'.args[1].slip44
           n2 == last'.args[1].nativeChainId
           n1 == slip44ToNative(s)
       IN (n1 # Null /\ SecondNativeUnder(s, n1[1], n2)) =>
            /\ Slip44ToNative(SLIP44_CHAIN_MAP', s) = Some(n2)
            /\ NativeToSlip44(NATIVE_TO_SLIP44_MAP', n2) = Some(s)
            /\ NativeToSlip44(NATIVE_TO_SLIP44_MAP', n1[1]) = Some(s)
            /\ IsSupportedChain(NATIVE_TO_SLIP44_MAP', n1[1])]_vars

\* native ID 250 has just been registered under slip44 60, which held native
\* ID 1: both resolve to 60, and 60 resolves to 250 only
C5_Witness ==
  /\ last.op = "registerChain"
  /\ last.args[1].slip44 = N(60)
  /\ last.args[1].nativeChainId = NumId(250)
  /\ nativeToSlip44(NumId(1)) = Some(N(60))
  /\ nativeToSlip44(NumId(250)) = Some(N(60))
  /\ slip44ToNative(N(60)) = Some(NumId(250))

(***************************************************************************)
(* Properties of the codec                                                 *)
(***************************************************************************)
LowerHexChars ==
  {"0", "1", "2", "3", "4", "5", "6", "7", "8", "9", "a", "b", "c", "d", "e", "f"}
AnyHexChars == LowerHexChars \cup {"A", "B", "C", "D", "E", "F"}
HexCharValue(c) ==
  CASE c = "0" -> 0 [] c = "1" -> 1 [] c = "2" -> 2 [] c = "3" -> 3 [] c = "4" -> 4
    [] c = "5" -> 5 [] c = "6" -> 6 [] c = "7" -> 7 [] c = "8" -> 8 [] c = "9" -> 9
    [] c \in {"a", "A"} -> 10 [] c \in {"b", "B"} -> 11 [] c \in {"c", "C"} -> 12
    [] c \in {"d", "D"} -> 13 [] c \in {"e", "E"} -> 14 [] c \in {"f", "F"} -> 15

\* the 20 bytes a valid native address stands for
AddressBytes(chainType, a) ==
  IF chainType = EVM
  THEN [i \in 1..20 |-> 16 * HexCharValue(a[2 * i + 1]) + HexCharValue(a[2 * i + 2])]
  ELSE SubSeq(Base58Decode(a).val, 2, 21)

\* the hex text of the README's example: 0x0000003c, 24 zeros, the address
ExampleHex ==
  <<"0", "x", "0", "0", "0", "0", "0", "0", "3", "c">> \o [i \in 1..24 |-> "0"]
    \o SubSeq(ToLowerCase(EvmExample), 3, 42)

\* C6: whenever encodeUniversalAddress(slip44, a) succeeds for a chain of
\* type EVM or TRON, the result has exactly 36 bytes, bytes 0..3 are slip44
\* as an unsigned big-endian integer, bytes 4..15 are zero and bytes 16..35
\* are the 20-byte native address; createUniversalAddressHex(1, <the README's
\* address>) is 0x0000003c, 24 zeros, then the lower-cased address.
C6_WireLayout ==
  /\ (last.op = "encodeUniversalAddress" /\ last.ret.ok) =>
       LET slip44 == last.args[1]
           a == last.args[2]
           chainType == getChainType(slip44)[1]
           b == last.ret.val
       IN chainType \in {EVM, TRON} =>
            /\ Len(b) = 36
            /\ slip44 = <<b[1] * 256 + b[2], b[3] * 256 + b[4]>>
            /\ \A i \in 5..16 : b[i] = 0
            /\ ValidFor(chainType, a) => SubSeq(b, 17, 36) = AddressBytes(chainType, a)
  /\ (/\ last.op = "createUniversalAddressHex"
      /\ last.args = <<NumId(1), EvmExample>>
      /\ nativeToSlip44(NumId(1)) = Some(N(60))
      /\ getChainType(N(60)) = Some(EVM))
       => last.ret = Ok(ExampleHex)

\* C6 for the slip44 numbers below 2^32, the ones four bytes can hold
C6_WireLayoutOf32Bits ==
  (last.op = "encodeUniversalAddress" /\ last.args[1][1] >= 65536) \/ C6_WireLayout

\* C7: decodeUniversalAddress fails with the invalid-length error for every
\* byte sequence whose length is not 36, in every registry state and
\* whatever the first four bytes are; bytesToHex fails likewise.
C7_LengthGuards ==
  /\ (last.op = "decodeUniversalAddress" /\ Len(last.args[1]) # 36)
       => last.ret = Throw("Invalid Universal Address length")
  /\ (last.op = "bytesToHex" /\ Len(last.args[1]) # 36)
       => last.ret = Throw("Invalid bytes length")

\* after a registration, the decoder has refused a 35-byte sequence whose
\* first four bytes name no registered chain
C7_Witness ==
  /\ last.op = "decodeUniversalAddress"
  /\ Len(last.args[1]) = 35
  /\ nregs > 0
  /\ ~isSupportedSlip44(Slip44FromBytes(last.args[1]))
  /\ ~last.ret.ok

\* an optional 0x prefix, then exactly 72 hexadecimal characters
WellFormedHex(h) ==
  LET body == IF Len(h) >= 2 /\ SubSeq(h, 1, 2) = <<"0", "x">> THEN SubSeq(h, 3, Len(h)) ELSE h
  IN Len(body) = 72 /\ \A i \in 1..72 : body[i] \in AnyHexChars

\* C8: hexToBytes returns 36 bytes only for inputs whose prefix-stripped
\* remainder is exactly 72 characters, all hexadecimal, and fails for every
\* other string (wrong length or any non-hex character).
C8_HexToBytesRejectsMalformed ==
  last.op = "hexToBytes" =>
    /\ last.ret.ok <=> WellFormedHex(last.args[1])
    /\ last.ret.ok => Len(last.ret.val) = 36

\* 0x followed by 72 lower-case hexadecimal characters
IsLowerHexText(h, digits) ==
  /\ Len(h) = digits + 2
  /\ SubSeq(h, 1, 2) = <<"0", "x">>
  /\ \A i \in 3..Len(h) : h[i] \in LowerHexChars

\* C9: hexToBytes(bytesToHex(b)) = b for every 36-byte b; bytesToHex(
\* hexToBytes(h)) is h lower-cased with a 0x prefix for every h made of an
\* optional 0x and exactly 72 hex characters; the output of bytesToHex is
\* always 0x followed by 72 lower-case hex characters.
C9_HexRoundTrip ==
  /\ (last.op = "bytesToHex" /\ Len(last.args[1]) = 36) =>
       /\ last.ret.ok
       /\ HexToBytes(last.ret.val) = Ok(last.args[1])
  /\ (last.op = "bytesToHex" /\ last.ret.ok) => IsLowerHexText(last.ret.val, 72)
  /\ (last.op = "hexToBytes" /\ WellFormedHex(last.args[1])) =>
       LET h == last.args[1]
           body == SubSeq(h, Len(h) - 71, Len(h))
       IN /\ last.ret.ok
          /\ BytesToHex(last.ret.val) = Ok(<<"0", "x">> \o ToLowerCase(body))

\* bytesToHex has rendered 36 bytes, one of them below 16 and one above 159
C9_Witness ==
  /\ last.op = "bytesToHex"
  /\ last.ret.ok
  /\ \E i, j \in 1..36 : last.args[1][i] \in 1..15 /\ last.args[1][j] >= 160

\* 0x followed by exactly 40 hexadecimal characters of any case
IsEvmAddress(a) ==
  /\ Len(a) = 42
  /\ SubSeq(a, 1, 2) = <<"0", "x">>
  /\ \A i \in 3..42 : a[i] \in AnyHexChars

\* C10: for every address a of the form 0x and exactly 40 hex characters,
\* evmConverter.toBytes(a) is 32 bytes with 12 leading zero bytes and
\* evmConverter.fromBytes(evmConverter.toBytes(a)) is a lower-cased; the
\* output of fromBytes is always lower-case and passes evmConverter.isValid.
C10_EvmRoundTrip ==
  /\ (last.op = "evmConverter.toBytes" /\ IsEvmAddress(last.args[1])) =>
       /\ last.ret.ok
       /\ Len(last.ret.val) = 32
       /\ \A i \in 1..12 : last.ret.val[i] = 0
       /\ SubSeq(last.ret.val, 13, 32) = AddressBytes(EVM, last.args[1])
       /\ EvmFromBytes(last.ret.val) = Ok(ToLowerCase(last.args[1]))
  /\ (last.op = "evmConverter.fromBytes" /\ last.ret.ok) =>
       /\ IsLowerHexText(last.ret.val, 40)
       /\ EvmIsValid(last.ret.val)

\* toBytes has converted the README's mixed-case address
C10_Witness ==
  /\ last.op = "evmConverter.toBytes"
  /\ last.args[1] = EvmExample
  /\ last.args[1] # ToLowerCase(last.args[1])
  /\ last.ret.ok

(***************************************************************************)
(* Properties of the converters                                            *)
(***************************************************************************)
\* C11: for every string a that tronConverter.isValid accepts,
\* tronConverter.toBytes(a) succeeds and
\* tronConverter.fromBytes(tronConverter.toBytes(a)) is a.
C11_TronRoundTrip ==
  (last.op = "tronConverter.toBytes" /\ TronIsValid(last.args[1])) =>
    /\ last.ret.ok
    /\ TronFromBytes(last.ret.val) = Ok(last.args[1])

\* C12: evmConverter.toBytes(a) fails for every a that evmConverter.isValid
\* rejects and tronConverter.toBytes(a) fails for every a that
\* tronConverter.isValid rejects: neither returns bytes for an address its own
\* isValid rejects.
C12_ToBytesRejectsMalformed ==
  /\ (last.op = "evmConverter.toBytes" /\ ~EvmIsValid(last.args[1])) => ~last.ret.ok
  /\ (last.op = "tronConverter.toBytes" /\ ~TronIsValid(last.args[1])) => ~last.ret.ok

\* C13: isValidUniversalAddress never raises an error and, in every registry
\* state, returns true exactly when its input is well formed: for bytes, iff
\* decodeUniversalAddress succeeds on them; for a string, iff it is an
\* optional 0x and exactly 72 hex characters whose 36 bytes decode
\* successfully; false for every other input.
C13_IsValidUniversalAddress ==
  last.op = "isValidUniversalAddress" =>
    LET kind == last.args[1][1]
        x == last.args[1][2]
    IN /\ last.ret.ok
       /\ kind = "bytes" => (last.ret.val <=> decodeUniversalAddress(x).ok)
       /\ kind = "string" =>
            (last.ret.val <=>
               (WellFormedHex(x) /\ decodeUniversalAddress(HexToBytes(x).val).ok))

\* the error outcomes of encodeUniversalAddress and createUniversalAddress:
\* unsupported chain for a slip44 or native ID with no registry entry,
\* unsupported chain type for a SOLANA or COSMOS chain, whatever the address
EncodeErrorOutcomes ==
  /\ last.op = "encodeUniversalAddress" =>
       LET slip44 == last.args[1]
       IN /\ ~isSupportedSlip44(slip44) => last.ret = Throw("Unsupported SLIP-44 ID")
          /\ getChainType(slip44) = Some(SOLANA) =>
               last.ret = Throw("Solana address conversion not implemented yet")
          /\ getChainType(slip44) = Some(COSMOS) =>
               last.ret = Throw("Unsupported chain type")
  /\ (last.op = "createUniversalAddress" /\ ~isSupportedChain(last.args[1])) =>
       last.ret = Throw("Unsupported native chain ID")

\* C14 as stated: the error outcomes above, and decodeUniversalAddress fails
\* with the unknown-chain error whenever the first four bytes of its input
\* name an unregistered slip44.
C14_ErrorOutcomes ==
  /\ EncodeErrorOutcomes
  /\ (/\ last.op = "decodeUniversalAddress"
      /\ Len(last.args[1]) >= 4
      /\ ~isSupportedSlip44(Slip44FromBytes(last.args[1])))
       => last.ret = Throw("Unknown SLIP-44 ID")

\* C14 as amended: the error outcomes above, and decodeUniversalAddress of a
\* 36-byte sequence fails with the unknown-chain error whenever its first
\* four bytes name an unregistered slip44 (a sequence of another length
\* fails with the invalid-length error first).
C14_ErrorOutcomesOf36Bytes ==
  /\ EncodeErrorOutcomes
  /\ (/\ last.op = "decodeUniversalAddress"
      /\ Len(last.args[1]) = 36
      /\ ~isSupportedSlip44(Slip44FromBytes(last.args[1])))
       => last.ret = Throw("Unknown SLIP-44 ID")

\* the encoder has refused a valid EVM address for a registered COSMOS chain
C14_Witness ==
  /\ last.op = "encodeUniversalAddress"
  /\ getChainType(last.args[1]) = Some(COSMOS)
  /\ EvmIsValid(last.args[2])
  /\ ~last.ret.ok

(***************************************************************************)
(* Properties of the lookups                                               *)
(***************************************************************************)
\* C15: in every reachable registry state and for every native chain ID n,
\* getChainInfoByNative(n) is getChainInfoBySlip44(nativeToSlip44(n)) when
\* nativeToSlip44(n) is found and not-found otherwise; hence it is non-null
\* for every n with isSupportedChain(n).
C15_ByNativeComposes ==
  last.op = "getChainInfoByNative" =>
    LET n == last.args[1]
        slip44 == nativeToSlip44(n)
    IN /\ last.ret.val = IF slip44 = Null THEN Null ELSE getChainInfoBySlip44(slip44[1])
       /\ isSupportedChain(n) => last.ret.val # Null

\* C16: in every registry state and for every numeric native chain ID n,
\* nativeToSlip44(n) = nativeToSlip44(String(n)) and isSupportedChain(n) =
\* isSupportedChain(String(n)); registering a chain under the number n or
\* under its string form writes the same reverse-map key: right after
\* registerChain(info) every ID with the string form of info.nativeChainId
\* resolves to info.slip44, and the map holds that key once.
C16_StringNormalizedIds ==
  /\ \A n \in AllNativeIds :
       n[1] = "number" =>
         /\ nativeToSlip44(n) = nativeToSlip44(StrId(String(n)))
         /\ isSupportedChain(n) = isSupportedChain(StrId(String(n)))
  /\ last.op \in {"nativeToSlip44", "isSupportedChain"} =>
       \A m \in AllNativeIds :
         String(m) = String(last.args[1]) =>
           last.ret.val = IF last.op = "nativeToSlip44" THEN nativeToSlip44(m)
                          ELSE isSupportedChain(m)
  /\ last.op = "registerChain" =>
       LET info == last.args[1]
           key == String(info.nativeChainId)
       IN /\ \A m \in AllNativeIds :
               String(m) = key => nativeToSlip44(m) = Some(info.slip44)
          /\ Cardinality({i \in 1..Len(NATIVE_TO_SLIP44_MAP) :
                            NATIVE_TO_SLIP44_MAP[i].key = key}) = 1

\* the string "1" has just been registered under slip44 1000001 over the
\* seed's numeric 1, and the number 1 now resolves to 1000001
C16_Witness ==
  /\ last.op = "registerChain"
  /\ last.args[1].nativeChainId = StrId("1")
  /\ nativeToSlip44(NumId(1)) = Some(N(1000001))
  /\ nativeToSlip44(StrId("1")) = Some(N(1000001))

\* the seed records in the order of the seed table
SeedOrder == [i \in 1..Len(SeedTable) |-> SeedTable[i].value]

CustomRange(slip44) == NumLess(N(999999), slip44) /\ NumLess(slip44, N(2000000))

MapsBothWays(n, s) ==
  /\ nativeToSlip44(NumId(n)) = Some(N(s))
  /\ slip44ToNative(N(s)) = Some(NumId(n))

C21_RegisterChainFrame ==
  [][nregs' # nregs =>
       LET info == last'.args[1]
           fwd == SLIP44_CHAIN_MAP'
           rev == NATIVE_TO_SLIP44_MAP'
       IN /\ \A s \in AllSlip44s :
               s # info.slip44 =>
                 /\ GetChainInfoBySlip44(fwd, s) = getChainInfoBySlip44(s)
                 /\ Slip44ToNative(fwd, s) = slip44ToNative(s)
                 /\ GetChainType(fwd, s) = getChainType(s)
                 /\ IsSupportedSlip44(fwd, s) = isSupportedSlip44(s)
          /\ \A n \in AllNativeIds :
               String(n) # String(info.nativeChainId) =>
                 /\ NativeToSlip44(rev, n) = nativeToSlip44(n)
                 /\ IsSupportedChain(rev, n) = isSupportedChain(n)
          /\ {fwd[i].key : i \in 1..Len(fwd)} \ {info.slip44}
               = {SLIP44_CHAIN_MAP[i].key : i \in 1..Len(SLIP44_CHAIN_MAP)} \ {info.slip44}
          /\ {rev[i].key : i \in 1..Len(rev)} \ {String(info.nativeChainId)}
               = {NATIVE_TO_SLIP44_MAP[i].key : i \in 1..Len(NATIVE_TO_SLIP44_MAP)}
                   \ {String(info.nativeChainId)}]_vars

\* Fantom has been registered over the Ethereum record as the second
\* registration, after Cosmos Hub, whose entries are still in place
C21_Witness ==
  /\ last.op = "registerChain"
  /\ last.args[1] = Fantom
  /\ nregs = 2
  /\ nativeToSlip44(StrId("cosmoshub-4")) = Some(N(118))
  /\ slip44ToNative(N(118)) = Some(StrId("cosmoshub-4"))
  /\ nativeToSlip44(NumId(1)) = Some(N(60))

\* C22: along every sequence of operations, once isSupportedSlip44(s) is
\* true it stays true and once isSupportedChain(n) is true it stays true:
\* in every step the set of registered slip44 keys and the set of
\* reverse-map keys only grow, and getAllSupportedSlip44s loses no element.
C22_NoDeletion ==
  [][LET Elements(seq) == {seq[i] : i \in 1..Len(seq)}
         Keys(map) == {map[i].key : i \in 1..Len(map)}
     IN /\ \A s \in AllSlip44s :
             isSupportedSlip44(s) => IsSupportedSlip44(SLIP44_CHAIN_MAP', s)
        /\ \A n \in AllNativeIds :
             isSupportedChain(n) => IsSupportedChain(NATIVE_TO_SLIP44_MAP', n)
        /\ Keys(SLIP44_CHAIN_MAP) \subseteq Keys(SLIP44_CHAIN_MAP')
        /\ Keys(NATIVE_TO_SLIP44_MAP) \subseteq Keys(NATIVE_TO_SLIP44_MAP')
        /\ Elements(GetAllSupportedSlip44s(SLIP44_CHAIN_MAP))
             \subseteq Elements(GetAllSupportedSlip44s(SLIP44_CHAIN_MAP'))]_vars

\* after two registrations under slip44 60, the seed's native ID 1 and the
\* first registration's native ID are both still supported
C22_Witness ==
  /\ nregs = 2
  /\ last.op = "registerChain"
  /\ last.args[1].slip44 = N(60)
  /\ last.args[1].nativeChainId = NumId(250)
  /\ isSupportedChain(NumId(1))
  /\ isSupportedChain(StrId("cosmoshub-4"))
  /\ isSupportedSlip44(N(118))

\* C23: only registerChain mutates the registry: every step of a lookup, of
\* a codec operation or of a converter leaves both registry maps unchanged,
\* whether the call returns a value or fails with an error.
C23_OnlyRegisterChainMutates ==
  [][last'.op # "registerChain" =>
       /\ SLIP44_CHAIN_MAP' = SLIP44_CHAIN_MAP
       /\ NATIVE_TO_SLIP44_MAP' = NATIVE_TO_SLIP44_MAP]_vars

\* in a registry changed by a registration the encoder has failed
C23_Witness ==
  /\ last.op = "encodeUniversalAddress"
  /\ ~last.ret.ok
  /\ nregs > 0
  /\ SLIP44_CHAIN_MAP # SeedChainMap
  /\ NATIVE_TO_SLIP44_MAP # SeedNativeMap

(***************************************************************************)
(* Further properties of the codec and the converters                      *)
(***************************************************************************)
\* C24: for every slip44 s registered with chain type EVM or TRON and every
\* valid address a, the first four bytes of encodeUniversalAddress(s, a) are
\* the big-endian bytes of s and decoding the result returns slip44 = s (a
\* value with bit 31 set comes back unsigned), and two different registered
\* slip44 values never encode to the same four-byte prefix.
C24_Slip44Field ==
  /\ (/\ last.op = "encodeUniversalAddress"
      /\ getChainType(last.args[1]) \in {Some(EVM), Some(TRON)}
      /\ ValidFor(getChainType(last.args[1])[1], last.args[2])) =>
       LET s == last.args[1]
           b == last.ret.val
       IN /\ last.ret.ok
          /\ s = <<b[1] * 256 + b[2], b[3] * 256 + b[4]>>
          /\ decodeUniversalAddress(b).ok
          /\ decodeUniversalAddress(b).val.slip44 = s
  /\ \A s1, s2 \in AllSlip44s :
       (isSupportedSlip44(s1) /\ isSupportedSlip44(s2) /\ s1 # s2) =>
         Slip44Bytes(s1) # Slip44Bytes(s2)

\* the characters of the Base58 alphabet
Base58Chars == {BASE58_ALPHABET[i] : i \in 1..58}

\* C25: tronConverter.isValid(a) never throws, and returns true if and only
\* if a is T followed by 33 Base58 characters, decodes to exactly 25 bytes,
\* and the last 4 decoded bytes are calculateChecksum of the first 21.
C25_TronIsValidTotal ==
  last.op = "tronConverter.isValid" =>
    LET a == last.args[1]
        decoded == Base58Decode(a)
    IN /\ last.ret.ok
       /\ last.ret.val <=>
            /\ Len(a) = 34
            /\ a[1] = "T"
            /\ \A i \in 2..34 : a[i] \in Base58Chars
            /\ decoded.ok
            /\ Len(decoded.val) = 25
            /\ SubSeq(decoded.val, 22, 25) = CalculateChecksum(SubSeq(decoded.val, 1, 21))

\* isValid has refused a string of the right syntax whose checksum is wrong
C25_Witness ==
  /\ last.op = "tronConverter.isValid"
  /\ last.args[1] = TronBadChecksum
  /\ \A i \in 2..34 : last.args[1][i] \in Base58Chars
  /\ last.ret = Ok(FALSE)

\* C26: for a slip44 whose chain type is EVM or TRON, decodeUniversalAddress
\* succeeds on a 36-byte input whatever bytes 4..15 hold, and its result
\* depends only on bytes 0..3 and 16..35.
C26_DecodeIgnoresPadding ==
  last.op = "decodeUniversalAddress" =>
    LET bytes == last.args[1]
    IN (/\ Len(bytes) = 36
        /\ getChainType(Slip44FromBytes(bytes)) \in {Some(EVM), Some(TRON)}) =>
         /\ last.ret.ok
         /\ \A padding \in Paddings :
              decodeUniversalAddress(SubSeq(bytes, 1, 4) \o padding \o SubSeq(bytes, 17, 36))
                = last.ret

\* a Tron slot with non-zero padding has been decoded
C26_Witness ==
  /\ last.op = "decodeUniversalAddress"
  /\ Len(last.args[1]) = 36
  /\ SubSeq(last.args[1], 5, 16) # Zeros(12)
  /\ last.ret.ok
  /\ last.ret.val.nativeAddress[1] = "T"

\* C27: base58Decode(base58Encode(b)) = b for every byte sequence b, the
\* number of leading "1" characters of the encoding is the number of leading
\* zero bytes of b, and base58Decode fails with the invalid-character error
\* on any character outside the alphabet.
C27_Base58RoundTrip ==
  /\ last.op = "tronConverter.base58Encode" =>
        LET b == last.args[1]
        IN /\ last.ret.ok
           /\ Base58Decode(last.ret.val) = Ok(b)
           /\ LeadingCount(last.ret.val, "1") = LeadingCount(b, 0)
  /\ last.op = "tronConverter.base58Decode" =>
        LET t == last.args[1]
        IN (\E i \in 1..Len(t) : t[i] \notin Base58Chars) =>
             last.ret = Throw("Invalid Base58 character")

\* a payload with two leading zero bytes has been encoded
C27_Witness ==
  /\ last.op = "tronConverter.base58Encode"
  /\ Len(last.args[1]) = 25
  /\ LeadingCount(last.args[1], 0) = 2
  /\ LeadingCount(last.ret.val, "1") = 2

\* C28: whenever decodeUniversalAddress succeeds, the nativeChainId it
\* returns is not null and is getChainInfoBySlip44(slip44).nativeChainId
\* in the current registry.
C28_DecodedNativeChainId ==
  (last.op \in {"decodeUniversalAddress", "decode(create)"} /\ last.ret.ok) =>
    LET info == getChainInfoBySlip44(last.ret.val.slip44)
    IN /\ last.ret.val.nativeChainId # Null
       /\ info # Null
       /\ last.ret.val.nativeChainId = Some(info[1].nativeChainId)

\* bytes with Ethereum's prefix have been decoded after 60 was registered
\* again for Fantom
C28_Witness ==
  /\ last.op = "decodeUniversalAddress"
  /\ last.ret.ok
  /\ last.ret.val.slip44 = N(60)
  /\ last.ret.val.nativeChainId = Some(NumId(250))

\* C29: every native chain ID n with isSupportedChain(n) resolves to a
\* registered slip44, so createUniversalAddress(n, a) never fails with the
\* unsupported-SLIP-44 error for a supported n.
C29_ReverseNeverDangles ==
  /\ \A n \in AllNativeIds :
       isSupportedChain(n) =>
         /\ nativeToSlip44(n) # Null
         /\ isSupportedSlip44(nativeToSlip44(n)[1])
  /\ (/\ last.op \in {"createUniversalAddress", "createUniversalAddressHex", "decode(create)"}
      /\ isSupportedChain(last.args[1])) =>
       last.ret # Throw("Unsupported SLIP-44 ID")

\* createUniversalAddress has succeeded for a chain registered with a slip44
\* beyond 32 bits
C29_Witness ==
  /\ last.op = "createUniversalAddress"
  /\ last.args[1] = NumId(32)
  /\ nativeToSlip44(NumId(32)) = Some(Slip44Wide)
  /\ isSupportedSlip44(Slip44Wide)
  /\ last.ret.ok

\* C30: for every 32-byte b, tronConverter.fromBytes(b) is a 34-character
\* string starting with T that tronConverter.isValid accepts, and
\* tronConverter.toBytes of it is b with bytes 0..11 set to zero.
C30_TronFromBytesValid ==
  (last.op = "tronConverter.fromBytes" /\ Len(last.args[1]) = 32) =>
    LET b == last.args[1]
    IN /\ last.ret.ok
       /\ Len(last.ret.val) = 34
       /\ last.ret.val[1] = "T"
       /\ TronIsValid(last.ret.val)
       /\ TronToBytes(last.ret.val) = Ok(Zeros(12) \o SubSeq(b, 13, 32))

\* a slot with non-zero padding has been converted
C30_Witness ==
  /\ last.op = "tronConverter.fromBytes"
  /\ Len(last.args[1]) = 32
  /\ SubSeq(last.args[1], 1, 12) # Zeros(12)
  /\ last.ret.ok
  /\ TronIsValid(last.ret.val)

====
